---- MODULE Spec2Model ----
(***************************************************************************)
(* Student-records service (src/app.py): the students table, the five      *)
(* request handlers that read and write it, and the connections they open.  *)
(*                                                                         *)
(* Text is a sequence of one-character strings, so that substring and       *)
(* pattern matching are computed character by character.  A JSON value is   *)
(* a record [t, s, n]: a string, an integer, null, or "absent" for a key    *)
(* the request body does not carry.                                         *)
(***************************************************************************)
EXTENDS Integers, Sequences, FiniteSets, TLC

VARIABLES table, nextId, clock, dbUp, openConns, assigned, req, resp, lastAdd, txn

vars == <<table, nextId, clock, dbUp, openConns, assigned, req, resp, lastAdd, txn>>

----------------------------------------------------------------------------
(* Bounds of the model *)

\* the SERIAL sequence hands out ids 1..MaxId; inserts stop once it is used up
MaxId == 2
\* CURRENT_TIMESTAMP takes the values 0..MaxClock
MaxClock == 1
\* requests are accepted while fewer than MaxOpenConns connections are left open
MaxOpenConns == 1

(* Column widths of the schema *)
StudentIdWidth == 20
NameWidth == 100
EmailWidth == 100
PhoneWidth == 20
CourseWidth == 100

----------------------------------------------------------------------------
(* JSON / SQL values *)

Str(s) == [t |-> "str", s |-> s, n |-> 0]
Num(n) == [t |-> "int", s |-> <<>>, n |-> n]
Null == [t |-> "null", s |-> <<>>, n |-> 0]
Absent == [t |-> "absent", s |-> <<>>, n |-> 0]
DataErr == [t |-> "err", s |-> <<>>, n |-> 0]

Fields == {"student_id", "name", "email", "phone", "course", "year", "address"}
required_fields == <<"student_id", "name", "email">>

\* data.get(k): None for a missing key
PyGet(data, k) == IF data[k] = Absent THEN Null ELSE data[k]

\* data.get(k, ''): the empty string for a missing key, the value (null included) otherwise
PyGetDefault(data, k) == IF data[k] = Absent THEN Str(<<>>) ELSE data[k]

\* Python truthiness of a JSON value, as `not data.get(field)` uses it
Falsy(v) == v = Null \/ v = Str(<<>>) \/ v = Num(0)

----------------------------------------------------------------------------
(* Column types: what the database stores for a value written to a column *)

Spaces(s) == \A i \in 1..Len(s) : s[i] = " "

\* VARCHAR(w): a longer string is an error unless the excess is all spaces,
\* which is cut off; null stays null (request bodies here carry only strings
\* and null for the text columns)
ToVarchar(v, w) ==
    IF v.t = "null" THEN Null
    ELSE IF v.t # "str" THEN DataErr
    ELSE IF Len(v.s) <= w THEN v
    ELSE IF Spaces(SubSeq(v.s, w + 1, Len(v.s))) THEN Str(SubSeq(v.s, 1, w))
    ELSE DataErr

\* TEXT: any string
ToText(v) ==
    IF v.t = "null" THEN Null
    ELSE IF v.t = "str" THEN v
    ELSE DataErr

DigitChars == <<"0", "1", "2", "3", "4", "5", "6", "7", "8", "9">>

RECURSIVE ParseDigits(_, _)
\* the integer a string of digits denotes (acc is the value read so far), -1 if not digits
ParseDigits(s, acc) ==
    IF s = <<>> THEN acc
    ELSE IF \E d \in 1..10 : DigitChars[d] = Head(s)
         THEN ParseDigits(Tail(s), acc * 10 + (CHOOSE d \in 1..10 : DigitChars[d] = Head(s)) - 1)
         ELSE -1

\* INTEGER: an integer is stored as is, a quoted literal is read as a number
\* (an error when it is not one), null stays null
ToInteger(v) ==
    IF v.t = "null" THEN Null
    ELSE IF v.t = "int" THEN v
    ELSE IF v.t = "str" /\ v.s # <<>> /\ ParseDigits(v.s, 0) >= 0 THEN Num(ParseDigits(v.s, 0))
    ELSE DataErr

\* the seven written columns of a row, each coerced to its column type
Coerce(vals) ==
    [student_id |-> ToVarchar(vals.student_id, StudentIdWidth),
     name       |-> ToVarchar(vals.name, NameWidth),
     email      |-> ToVarchar(vals.email, EmailWidth),
     phone      |-> ToVarchar(vals.phone, PhoneWidth),
     course     |-> ToVarchar(vals.course, CourseWidth),
     year       |-> ToInteger(vals.year),
     address    |-> ToText(vals.address)]

HasDataError(c) == \E f \in Fields : c[f] = DataErr

\* NOT NULL on student_id, name and email
NotNullOk(c) == c.student_id # Null /\ c.name # Null /\ c.email # Null

\* UNIQUE(student_id): no row other than `self` carries the value
UniqueStudentId(rows, self, c) ==
    \A r \in rows : r.id # self => r.student_id # c.student_id

\* UniqueEmail as it would be without the UNIQUE constraint on email
UniqueEmailOff(rows, self, c) == TRUE

\* UNIQUE(email)
UniqueEmail(rows, self, c) ==
    \A r \in rows : r.id # self => r.email # c.email

Row(id, c, now) ==
    [id |-> id, student_id |-> c.student_id, name |-> c.name, email |-> c.email,
     phone |-> c.phone, course |-> c.course, year |-> c.year, address |-> c.address,
     created_at |-> now]

----------------------------------------------------------------------------
(* The statements the handlers execute, as functions of the table *)

\* NextVal as it would be if the id were the highest id of the table plus one
NextValReuse(rows, seq) ==
    IF rows = {} THEN 1 ELSE 1 + (CHOOSE m \in {r.id : r \in rows} : \A r \in rows : r.id <= m)

\* id SERIAL: the sequence's next value, whatever rows the table holds
NextVal(rows, seq) == seq

\* INSERT ... RETURNING id.  A value that does not fit its column is rejected
\* before the sequence advances; a constraint violation is raised after it
\* has advanced, and the advance is not rolled back.
InsertStmt(rows, seq, now, vals) ==
    LET c == Coerce(vals)
        id == NextVal(rows, seq)
    IN  IF HasDataError(c)
        THEN [kind |-> "data", rows |-> rows, seq |-> seq, id |-> 0]
        ELSE IF ~NotNullOk(c) \/ ~UniqueStudentId(rows, 0, c) \/ ~UniqueEmail(rows, 0, c)
        THEN [kind |-> "integrity", rows |-> rows, seq |-> seq + 1, id |-> 0]
        ELSE [kind |-> "ok", rows |-> rows \cup {Row(id, c, now)}, seq |-> seq + 1, id |-> id]

\* UpdateStmt as it would be if the constraints were checked before the row is looked up
UpdateStmtCheckFirst(rows, id, vals) ==
    LET c == Coerce(vals)
    IN  IF HasDataError(c) THEN [kind |-> "data", rows |-> rows]
        ELSE IF ~NotNullOk(c) \/ ~UniqueStudentId(rows, id, c) \/ ~UniqueEmail(rows, id, c)
        THEN [kind |-> "integrity", rows |-> rows]
        ELSE IF ~\E r \in rows : r.id = id THEN [kind |-> "none", rows |-> rows]
        ELSE [kind |-> "ok",
              rows |-> {IF r.id = id THEN [id |-> r.id, student_id |-> c.student_id,
                                           name |-> c.name, email |-> c.email,
                                           phone |-> c.phone, course |-> c.course,
                                           year |-> c.year, address |-> c.address,
                                           created_at |-> r.created_at]
                        ELSE r : r \in rows}]

\* UPDATE ... WHERE id = %s: the seven columns are overwritten, id and
\* created_at are not in the SET list.  rowcount is 1 for kind "ok", 0 for "none".
UpdateStmt(rows, id, vals) ==
    LET c == Coerce(vals)
    IN  IF HasDataError(c) THEN [kind |-> "data", rows |-> rows]
        ELSE IF ~\E r \in rows : r.id = id THEN [kind |-> "none", rows |-> rows]
        ELSE IF ~NotNullOk(c) \/ ~UniqueStudentId(rows, id, c) \/ ~UniqueEmail(rows, id, c)
        THEN [kind |-> "integrity", rows |-> rows]
        ELSE [kind |-> "ok",
              rows |-> {IF r.id = id THEN Row(r.id, c, r.created_at) ELSE r : r \in rows}]

\* DeleteStmt as it would be without its WHERE clause
DeleteStmtAll(rows, id) ==
    IF \E r \in rows : r.id = id
    THEN [kind |-> "ok", rows |-> {}]
    ELSE [kind |-> "none", rows |-> rows]

\* DELETE FROM students WHERE id = %s
DeleteStmt(rows, id) ==
    IF \E r \in rows : r.id = id
    THEN [kind |-> "ok", rows |-> {r \in rows : r.id # id}]
    ELSE [kind |-> "none", rows |-> rows]

RECURSIVE OrderByIdDesc(_)
\* ORDER BY id DESC
OrderByIdDesc(rows) ==
    IF rows = {} THEN <<>>
    ELSE LET top == CHOOSE r \in rows : \A q \in rows : q.id <= r.id
         IN  <<top>> \o OrderByIdDesc(rows \ {top})

\* strftime('%Y-%m-%d %H:%M:%S'): the timestamp rendered as text
Strftime(ts) == Str(<<DigitChars[ts + 1]>>)

\* one row as the dictionary the handlers build from it
StudentDict(r) == [r EXCEPT !.created_at = Strftime(r.created_at)]

StudentList(seq) == [i \in 1..Len(seq) |-> StudentDict(seq[i])]

Lower(c) == IF c = "A" THEN "a" ELSE IF c = "B" THEN "b" ELSE c

RECURSIVE ILike(_, _)
\* text ILIKE pattern: % matches any run of characters, _ any one character,
\* a backslash takes the next pattern character literally; letters match in
\* either case
ILike(text, pat) ==
    IF pat = <<>> THEN text = <<>>
    ELSE IF Head(pat) = "%"
         THEN ILike(text, Tail(pat)) \/ (text # <<>> /\ ILike(Tail(text), pat))
    ELSE IF Head(pat) = "_"
         THEN text # <<>> /\ ILike(Tail(text), Tail(pat))
    ELSE IF Head(pat) = "\\" /\ Len(pat) >= 2
         THEN /\ text # <<>>
              /\ Lower(Head(text)) = Lower(pat[2])
              /\ ILike(Tail(text), Tail(Tail(pat)))
    ELSE /\ text # <<>>
         /\ Lower(Head(text)) = Lower(Head(pat))
         /\ ILike(Tail(text), Tail(pat))

\* f'%{query}%'
Pattern(query) == <<"%">> \o query \o <<"%">>

\* SELECT * FROM students WHERE name ILIKE %s OR student_id ILIKE %s
SearchStmt(rows, query) ==
    {r \in rows : ILike(r.name.s, Pattern(query)) \/ ILike(r.student_id.s, Pattern(query))}

----------------------------------------------------------------------------
(* Requests and responses *)

NoBody == [f \in Fields |-> Absent]

Body(sid, name, email, phone, course, year, address) ==
    [student_id |-> sid, name |-> name, email |-> email, phone |-> phone,
     course |-> course, year |-> year, address |-> address]

Request(op, id, data, query) == [op |-> op, id |-> id, data |-> data, query |-> query]

\* opened: the handler obtained a connection; closed: it called conn.close()
Response(status, kind, id, rows, opened, closed) ==
    [status |-> status, kind |-> kind, id |-> id, rows |-> rows,
     opened |-> opened, closed |-> closed]

NoRequest == Request("none", 0, NoBody, Absent)
NoResponse == Response(0, "none", 0, <<>>, FALSE, FALSE)

\* what the client of a successful add knows: the id it was given and what it sent
NoAdd == [id |-> 0, data |-> NoBody]

\* get_db_connection(): a connection, or None when the database cannot be reached
get_db_connection == dbUp

\* AddValues as it would be if the optional fields were read without a default
AddValuesNoDefaults(data) ==
    [student_id |-> data.student_id,
     name       |-> data.name,
     email      |-> data.email,
     phone      |-> PyGet(data, "phone"),
     course     |-> PyGet(data, "course"),
     year       |-> PyGet(data, "year"),
     address    |-> PyGet(data, "address")]

\* the parameters of the INSERT
AddValues(data) ==
    [student_id |-> data.student_id,
     name       |-> data.name,
     email      |-> data.email,
     phone      |-> PyGetDefault(data, "phone"),
     course     |-> PyGetDefault(data, "course"),
     year       |-> PyGet(data, "year"),
     address    |-> PyGetDefault(data, "address")]

\* the parameters of the UPDATE
UpdateValues(data) ==
    [student_id |-> PyGet(data, "student_id"),
     name       |-> PyGet(data, "name"),
     email      |-> PyGet(data, "email"),
     phone      |-> PyGetDefault(data, "phone"),
     course     |-> PyGetDefault(data, "course"),
     year       |-> PyGet(data, "year"),
     address    |-> PyGetDefault(data, "address")]

\* request.args.get('query', '')
QueryArg(q) == IF q = Absent THEN <<>> ELSE q.s

----------------------------------------------------------------------------
(* The handlers, one request answered per step.  A handler runs when no
   response is waiting to be received. *)

Idle == req = NoRequest /\ openConns < MaxOpenConns

\* GET /api/students
get_students ==
    /\ Idle
    /\ req' = Request("list", 0, NoBody, Absent)
    /\ UNCHANGED lastAdd
    /\ IF ~get_db_connection
       THEN resp' = Response(500, "connection", 0, <<>>, FALSE, FALSE)
       ELSE resp' = Response(200, "ok", 0, StudentList(OrderByIdDesc(table)), TRUE, TRUE)
    /\ UNCHANGED <<table, nextId, clock, dbUp, openConns, assigned, txn>>

\* POST /api/students
add_student(data) ==
    /\ Idle
    /\ nextId <= MaxId
    /\ req' = Request("add", 0, data, Absent)
    /\ lastAdd' = NoAdd
    /\ IF \E i \in 1..Len(required_fields) : Falsy(PyGet(data, required_fields[i]))
       THEN /\ resp' = Response(400, "validation", 0, <<>>, FALSE, FALSE)
            /\ UNCHANGED <<table, nextId, openConns, assigned>>
       ELSE IF ~get_db_connection
       THEN /\ resp' = Response(500, "connection", 0, <<>>, FALSE, FALSE)
            /\ UNCHANGED <<table, nextId, openConns, assigned>>
       ELSE LET out == InsertStmt(table, nextId, clock, AddValues(data))
            IN  /\ nextId' = out.seq
                /\ IF out.kind = "ok"
                   THEN \* commit, close
                        /\ table' = out.rows
                        /\ assigned' = assigned \cup {out.id}
                        /\ resp' = Response(201, "ok", out.id, <<>>, TRUE, TRUE)
                        /\ UNCHANGED openConns
                   ELSE \* rollback, return
                        /\ resp' = IF out.kind = "integrity"
                                   THEN Response(400, "conflict", 0, <<>>, TRUE, FALSE)
                                   ELSE Response(500, "generic", 0, <<>>, TRUE, FALSE)
                        /\ openConns' = openConns + 1
                        /\ UNCHANGED <<table, assigned>>
    /\ UNCHANGED <<clock, dbUp, txn>>

\* PUT /api/students/<id>
update_student(id, data) ==
    /\ Idle
    /\ req' = Request("update", id, data, Absent)
    /\ lastAdd' = NoAdd
    /\ IF ~get_db_connection
       THEN /\ resp' = Response(500, "connection", 0, <<>>, FALSE, FALSE)
            /\ UNCHANGED <<table, openConns>>
       ELSE LET out == UpdateStmt(table, id, UpdateValues(data))
            IN  IF out.kind = "ok"
                THEN \* commit, close
                     /\ table' = out.rows
                     /\ resp' = Response(200, "ok", 0, <<>>, TRUE, TRUE)
                     /\ UNCHANGED openConns
                ELSE \* rollback, return
                     /\ resp' = IF out.kind = "none"
                                THEN Response(404, "notfound", 0, <<>>, TRUE, FALSE)
                                ELSE IF out.kind = "integrity"
                                THEN Response(400, "conflict", 0, <<>>, TRUE, FALSE)
                                ELSE Response(500, "generic", 0, <<>>, TRUE, FALSE)
                     /\ openConns' = openConns + 1
                     /\ UNCHANGED table
    /\ UNCHANGED <<nextId, clock, dbUp, assigned, txn>>

\* DELETE /api/students/<id>
delete_student(id) ==
    /\ Idle
    /\ req' = Request("delete", id, NoBody, Absent)
    /\ lastAdd' = NoAdd
    /\ IF ~get_db_connection
       THEN /\ resp' = Response(500, "connection", 0, <<>>, FALSE, FALSE)
            /\ UNCHANGED <<table, openConns>>
       ELSE LET out == DeleteStmt(table, id)
            IN  IF out.kind = "ok"
                THEN \* commit, close
                     /\ table' = out.rows
                     /\ resp' = Response(200, "ok", 0, <<>>, TRUE, TRUE)
                     /\ UNCHANGED openConns
                ELSE \* rollback, return
                     /\ resp' = Response(404, "notfound", 0, <<>>, TRUE, FALSE)
                     /\ openConns' = openConns + 1
                     /\ UNCHANGED table
    /\ UNCHANGED <<nextId, clock, dbUp, assigned, txn>>

\* search_students as it would be if it asked for a connection before looking at the query
search_students_ConnectFirst(q) ==
    /\ req = NoRequest /\ openConns < MaxOpenConns
    /\ req' = [op |-> "search", id |-> 0, data |-> [f \in Fields |-> Absent], query |-> q]
    /\ lastAdd' = [id |-> 0, data |-> [f \in Fields |-> Absent]]
    /\ IF ~dbUp
       THEN resp' = Response(500, "connection", 0, <<>>, FALSE, FALSE)
       ELSE resp' = Response(200, "ok", 0,
                             IF QueryArg(q) = <<>> THEN <<>>
                             ELSE StudentList(OrderByIdDesc(SearchStmt(table, QueryArg(q)))),
                             TRUE, TRUE)
    /\ UNCHANGED <<table, nextId, clock, dbUp, openConns, assigned, txn>>

\* GET /api/students/search?query=...
search_students(q) ==
    /\ Idle
    /\ req' = Request("search", 0, NoBody, q)
    /\ lastAdd' = NoAdd
    /\ IF QueryArg(q) = <<>>
       THEN resp' = Response(200, "ok", 0, <<>>, FALSE, FALSE)
       ELSE IF ~get_db_connection
       THEN resp' = Response(500, "connection", 0, <<>>, FALSE, FALSE)
       ELSE resp' = Response(200, "ok", 0,
                             StudentList(OrderByIdDesc(SearchStmt(table, QueryArg(q)))),
                             TRUE, TRUE)
    /\ UNCHANGED <<table, nextId, clock, dbUp, openConns, assigned, txn>>

(* The environment.  A request is answered in one step, so time and the
   reachability of the database change between requests. *)

\* the client receives the response; after a 201 it remembers what it sent
Receive ==
    /\ req # NoRequest
    /\ lastAdd' = IF req.op = "add" /\ resp.status = 201
                  THEN [id |-> resp.id, data |-> req.data]
                  ELSE lastAdd
    /\ req' = NoRequest
    /\ resp' = NoResponse
    /\ UNCHANGED <<table, nextId, clock, dbUp, openConns, assigned, txn>>

\* time passes
Tick ==
    /\ req = NoRequest
    /\ clock < MaxClock
    /\ clock' = clock + 1
    /\ UNCHANGED <<table, nextId, dbUp, openConns, assigned, req, resp, lastAdd, txn>>

\* the database becomes unreachable, or reachable again
DbFlip ==
    /\ req = NoRequest
    /\ dbUp' = ~dbUp
    /\ UNCHANGED <<table, nextId, clock, openConns, assigned, req, resp, lastAdd, txn>>

----------------------------------------------------------------------------
(* Request inputs *)

SidA == <<"a", "1">>
SidB == <<"B">>
SidLong == [i \in 1..(StudentIdWidth + 1) |-> "x"]
Sids == {SidA, SidB}
Emails == {<<"e">>, <<"f">>}

NameAb == <<"A", "b">>
NameB_ == <<"b", "_">>

\* bodies of the documented shape: the three required strings, an optional year
GoodBodies ==
    {Body(Str(s), ny[1], Str(e), Absent, Absent, ny[2], Absent) :
        s \in Sids, e \in Emails, ny \in {<<Str(NameAb), Absent>>, <<Str(NameB_), Num(1)>>}}

\* bodies with one field missing, oversized, of another type, or null
OddBodies ==
    UNION {{Body(Absent, Str(NameAb), Str(e), Absent, Absent, Absent, Absent),
            Body(Str(s), Absent, Str(<<"e">>), Absent, Absent, Absent, Absent),
            Body(Str(s), Str(NameAb), Absent, Absent, Absent, Absent, Absent),
            Body(Str(SidLong), Str(NameAb), Str(e), Absent, Absent, Absent, Absent),
            Body(Str(s), Str(NameAb), Str(<<"e">>), Absent, Absent, Str(<<"1">>), Absent),
            Body(Str(s), Str(NameAb), Str(<<"f">>), Absent, Absent, Str(<<"x">>), Absent),
            Body(Str(SidB), Str(NameAb), Str(<<"f">>), Absent, Null, Absent, Absent)} :
           s \in Sids, e \in Emails}

Bodies == GoodBodies \cup OddBodies

\* one id more than the sequence can hand out, so that some id is never present
Ids == 1..(MaxId + 1)

Queries ==
    {Absent, Str(<<>>), Str(<<"a">>), Str(<<"B">>), Str(<<"1">>), Str(<<"a", "b">>),
     Str(<<"_">>), Str(<<"%">>), Str(<<"\\">>), Str(<<"b", "_">>)}

----------------------------------------------------------------------------
(* Requests answered one at a time *)

Procs == {1, 2}
NoTxn == [kind |-> "none", id |-> 0, rows |-> {}]

Init ==
    /\ table = {}
    /\ nextId = 1
    /\ clock = 0
    /\ dbUp = TRUE
    /\ openConns = 0
    /\ assigned = {}
    /\ req = NoRequest
    /\ resp = NoResponse
    /\ lastAdd = NoAdd
    /\ txn = [p \in Procs |-> NoTxn]

Next ==
    \/ get_students
    \/ \E data \in Bodies : add_student(data)
    \/ \E id \in Ids, data \in Bodies : update_student(id, data)
    \/ \E id \in Ids : delete_student(id)
    \/ \E q \in Queries : search_students(q)
    \/ Receive
    \/ Tick
    \/ DbFlip

Spec == Init /\ [][Next]_vars

----------------------------------------------------------------------------
(* Concurrent requests.  Each request runs its one statement in a transaction
   of its own and then commits; between the statement and the commit other
   requests run.  The database makes a statement wait while a row it touches,
   or a row that might hold the same key, belongs to a transaction that is
   still open.  No statement's outcome depends on the time, which stands still
   here. *)

\* rows written, and not yet committed, by the other transactions
OthersWrites(p) == UNION {txn[q].rows : q \in Procs \ {p}}

\* ids of rows the other transactions have updated or deleted without committing yet
OthersLocks(p) == {txn[q].id : q \in {o \in Procs \ {p} : txn[o].kind \in {"upd", "del"}}}

\* the committed rows no open transaction of another request has touched
Settled(p) == {r \in table : r.id \notin OthersLocks(p)}

\* the row versions whose fate another open transaction will decide
Unsettled(p) == OthersWrites(p) \cup {r \in table : r.id \in OthersLocks(p)}

\* MustWait as it would be if uniqueness were checked against committed rows only
MustWaitNever(p, self, c) == FALSE

\* the unique indexes make the statement wait for such a version with the same key
MustWait(p, self, c) ==
    ~(UniqueStudentId(Unsettled(p), self, c) /\ UniqueEmail(Unsettled(p), self, c))

\* add_student up to its INSERT; a failed request rolls back and returns at once
BeginAdd(p, data) ==
    /\ txn[p] = NoTxn
    /\ nextId <= MaxId
    /\ \A i \in 1..Len(required_fields) : ~Falsy(PyGet(data, required_fields[i]))
    /\ get_db_connection
    /\ LET out == InsertStmt(Settled(p), nextId, clock, AddValues(data))
       IN  /\ out.kind = "ok" => ~MustWait(p, 0, Coerce(AddValues(data)))
           /\ nextId' = out.seq
           /\ txn' = IF out.kind = "ok"
                     THEN [txn EXCEPT ![p] = [kind |-> "ins", id |-> out.id,
                                              rows |-> out.rows \ Settled(p)]]
                     ELSE txn
    /\ UNCHANGED <<table, clock, dbUp, openConns, assigned, req, resp, lastAdd>>

\* update_student up to its UPDATE
BeginUpdate(p, id, data) ==
    /\ txn[p] = NoTxn
    /\ get_db_connection
    /\ id \notin OthersLocks(p)
    /\ LET out == UpdateStmt(Settled(p), id, UpdateValues(data))
       IN  /\ out.kind = "ok" => ~MustWait(p, id, Coerce(UpdateValues(data)))
           /\ txn' = IF out.kind = "ok"
                     THEN [txn EXCEPT ![p] = [kind |-> "upd", id |-> id,
                                              rows |-> {r \in out.rows : r.id = id}]]
                     ELSE txn
    /\ UNCHANGED <<table, nextId, clock, dbUp, openConns, assigned, req, resp, lastAdd>>

\* delete_student up to its DELETE
BeginDelete(p, id) ==
    /\ txn[p] = NoTxn
    /\ get_db_connection
    /\ id \notin OthersLocks(p)
    /\ LET out == DeleteStmt(Settled(p), id)
       IN  txn' = IF out.kind = "ok"
                  THEN [txn EXCEPT ![p] = [kind |-> "del", id |-> id, rows |-> {}]]
                  ELSE txn
    /\ UNCHANGED <<table, nextId, clock, dbUp, openConns, assigned, req, resp, lastAdd>>

\* conn.commit(): the transaction's write becomes part of the table
Commit(p) ==
    /\ txn[p] # NoTxn
    /\ table' = {r \in table : r.id # txn[p].id} \cup txn[p].rows
    /\ assigned' = IF txn[p].kind = "ins" THEN assigned \cup {txn[p].id} ELSE assigned
    /\ txn' = [txn EXCEPT ![p] = NoTxn]
    /\ UNCHANGED <<nextId, clock, dbUp, openConns, req, resp, lastAdd>>

NextConc ==
    \/ \E p \in Procs, data \in Bodies : BeginAdd(p, data)
    \/ \E p \in Procs, id \in Ids, data \in Bodies : BeginUpdate(p, id, data)
    \/ \E p \in Procs, id \in Ids : BeginDelete(p, id)
    \/ \E p \in Procs : Commit(p)

SpecConc == Init /\ [][NextConc]_vars

----------------------------------------------------------------------------
(* Properties *)

Ids_of(rows) == {r.id : r \in rows}

\* a step in which the handler of `op` answers a request
Answers(op) == req = NoRequest /\ req'.op = op

\* some row carries the student_id or the email of the body
Duplicates(rows, data) ==
    \E r \in rows : r.student_id = data.student_id \/ r.email = data.email

\* every value of the body fits the type of its column
FitsColumns(vals) == ~HasDataError(Coerce(vals))

\* C1: in every state reached by interleaved add, update and delete requests,
\* no two rows of the table share a student_id and no two rows share an email.
C1_UniqueKeys ==
    \A r1, r2 \in table :
        r1 # r2 => r1.student_id # r2.student_id /\ r1.email # r2.email

\* two rows are committed and both are being updated by open transactions
C1_Witness ==
    /\ Cardinality(table) = 2
    /\ \A p \in Procs : txn[p].kind = "upd"

\* C2 as stated: an add whose student_id or email equals that of an existing
\* row is answered with the uniqueness conflict (400) and changes no row.
C2_AsStated ==
    [][(Answers("add") /\ Duplicates(table, req'.data))
          => (resp'.status = 400 /\ resp'.kind = "conflict" /\ table' = table)]_vars

\* C2 amended: an add whose student_id or email equals that of an existing row
\* never changes the table and is never answered 201; it is answered with the
\* uniqueness conflict (400) whenever it passes the required-field validation,
\* obtains a connection and all its values fit their columns.
C2_DuplicateAdd ==
    [][(Answers("add") /\ Duplicates(table, req'.data))
          => /\ table' = table
             /\ Cardinality(table') = Cardinality(table)
             /\ resp'.status \in {400, 500}
             /\ ( (/\ \A i \in 1..Len(required_fields) :
                         ~Falsy(PyGet(req'.data, required_fields[i]))
                   /\ dbUp
                   /\ FitsColumns(AddValues(req'.data)))
                  => (resp'.status = 400 /\ resp'.kind = "conflict") )]_vars

\* an add with a new student_id and the email of an existing row was refused
C2_Witness ==
    /\ req.op = "add"
    /\ resp.kind = "conflict"
    /\ \E r \in table : r.email = req.data.email /\ r.student_id # req.data.student_id

\* C3 as stated: an update of an id that is not in the table is answered 404
\* and changes no row, whatever the body.
C3_AsStated ==
    [][(Answers("update") /\ req'.id \notin Ids_of(table))
          => (resp'.status = 404 /\ table' = table)]_vars

\* C3 amended: an update of an id that is not in the table changes no row,
\* whatever the body; it is answered 404 whenever it obtains a connection and
\* all the values of the body fit their columns, and 500 otherwise.
C3_UpdateAbsent ==
    [][(Answers("update") /\ req'.id \notin Ids_of(table))
          => /\ table' = table
             /\ resp'.status \in {404, 500}
             /\ (dbUp /\ FitsColumns(UpdateValues(req'.data))) => resp'.status = 404]_vars

\* an update without student_id, of an id that is not there, was answered 404
\* while the table holds other rows
C3_Witness ==
    /\ req.op = "update"
    /\ resp.status = 404
    /\ req.data.student_id = Absent
    /\ table # {}

\* C4 as stated: a delete of a present id is answered 200 and removes exactly
\* that row, which list results no longer show; a delete of an absent id is
\* answered 404 and changes nothing.
C4_AsStated ==
    [][/\ Answers("delete") =>
            IF req'.id \in Ids_of(table)
            THEN resp'.status = 200 /\ table' = {r \in table : r.id # req'.id}
            ELSE resp'.status = 404 /\ table' = table
       /\ (Answers("list") /\ resp'.status = 200) =>
            {resp'.rows[i].id : i \in 1..Len(resp'.rows)} = Ids_of(table)]_vars

\* C4 amended: the same for a delete that obtains a connection; one that does
\* not is answered 500 and changes nothing.
C4_Delete ==
    [][/\ (Answers("delete") /\ dbUp) =>
            IF req'.id \in Ids_of(table)
            THEN resp'.status = 200 /\ table' = {r \in table : r.id # req'.id}
            ELSE resp'.status = 404 /\ table' = table
       /\ (Answers("delete") /\ ~dbUp) => (resp'.status = 500 /\ table' = table)
       /\ (Answers("list") /\ resp'.status = 200) =>
            {resp'.rows[i].id : i \in 1..Len(resp'.rows)} = Ids_of(table)]_vars

\* a delete removed one row of two
C4_Witness ==
    /\ req.op = "delete"
    /\ resp.status = 200
    /\ Cardinality(table) = 1
    /\ req.id \notin Ids_of(table)

RECURSIVE HasPrefixCI(_, _)
\* text starts with q, letters compared in either case
HasPrefixCI(text, q) ==
    \/ q = <<>>
    \/ /\ text # <<>>
       /\ Lower(Head(text)) = Lower(Head(q))
       /\ HasPrefixCI(Tail(text), Tail(q))

RECURSIVE ContainsCI(_, _)
\* q occurs in text as a literal substring, letters compared in either case
ContainsCI(text, q) ==
    \/ HasPrefixCI(text, q)
    \/ text # <<>> /\ ContainsCI(Tail(text), q)

\* C5: a search with a non-empty query returns exactly the rows whose name or
\* student_id contains the query as a literal substring, in either case.
C5_LiteralSubstring ==
    (req.op = "search" /\ QueryArg(req.query) # <<>> /\ resp.status = 200)
        => {resp.rows[i].id : i \in 1..Len(resp.rows)}
              = {r.id : r \in {x \in table : \/ ContainsCI(x.name.s, QueryArg(req.query))
                                             \/ ContainsCI(x.student_id.s, QueryArg(req.query))}}

\* C6: a search with an empty or missing query is answered 200 with an empty
\* array and obtains no connection, whatever the table holds and whether or
\* not the database can be reached.
C6_BlankSearch ==
    [][(Answers("search") /\ QueryArg(req'.query) = <<>>)
          => /\ resp'.status = 200
             /\ resp'.rows = <<>>
             /\ ~resp'.opened
             /\ openConns' = openConns]_vars

\* a search without query was answered while the table held rows and the
\* database was unreachable
C6_Witness ==
    /\ req.op = "search"
    /\ req.query = Absent
    /\ resp.status = 200
    /\ table # {}
    /\ ~dbUp

\* the row of a list result that carries the id of the last successful add
AddedRow == CHOOSE d \in {resp.rows[i] : i \in 1..Len(resp.rows)} : d.id = lastAdd.id

ListAfterAdd == req.op = "list" /\ resp.status = 200 /\ lastAdd # NoAdd

\* C7 as stated: the list answered right after a successful add shows a record
\* with the returned id whose seven fields equal the submitted values, omitted
\* phone, course and address reading "" and an omitted year null.
C7_AsStated ==
    ListAfterAdd =>
        /\ \E i \in 1..Len(resp.rows) : resp.rows[i].id = lastAdd.id
        /\ AddedRow.student_id = lastAdd.data.student_id
        /\ AddedRow.name = lastAdd.data.name
        /\ AddedRow.email = lastAdd.data.email
        /\ AddedRow.phone = PyGetDefault(lastAdd.data, "phone")
        /\ AddedRow.course = PyGetDefault(lastAdd.data, "course")
        /\ AddedRow.address = PyGetDefault(lastAdd.data, "address")
        /\ AddedRow.year = PyGet(lastAdd.data, "year")

\* C7 amended: the same for the text fields submitted within their column
\* widths and for a year submitted as an integer, as null or not at all; a
\* year submitted as a string of digits reads back as the integer it denotes.
C7_RoundTrip ==
    ListAfterAdd =>
        /\ \E i \in 1..Len(resp.rows) : resp.rows[i].id = lastAdd.id
        /\ Len(lastAdd.data.student_id.s) <= StudentIdWidth
             => AddedRow.student_id = lastAdd.data.student_id
        /\ Len(lastAdd.data.name.s) <= NameWidth => AddedRow.name = lastAdd.data.name
        /\ Len(lastAdd.data.email.s) <= EmailWidth => AddedRow.email = lastAdd.data.email
        /\ Len(lastAdd.data.phone.s) <= PhoneWidth
             => AddedRow.phone = PyGetDefault(lastAdd.data, "phone")
        /\ Len(lastAdd.data.course.s) <= CourseWidth
             => AddedRow.course = PyGetDefault(lastAdd.data, "course")
        /\ AddedRow.address = PyGetDefault(lastAdd.data, "address")
        /\ AddedRow.year = IF lastAdd.data.year.t = "str"
                           THEN Num(ParseDigits(lastAdd.data.year.s, 0))
                           ELSE PyGet(lastAdd.data, "year")

\* a list answered after an add that sent an integer year and no phone
C7_Witness ==
    /\ ListAfterAdd
    /\ lastAdd.data.year = Num(1)
    /\ lastAdd.data.phone = Absent
    /\ Len(resp.rows) = 2

\* C8: a request that obtains a connection closes it before it returns, and
\* once requests have been answered no connection is left open.
C8_ConnectionsClosed ==
    /\ resp.opened => resp.closed
    /\ openConns = 0

\* C9: an update of an existing id that obtains a connection, with values that
\* fit their columns, is answered 400 exactly when the new student_id or email
\* is that of another row; any other failure is answered 500; a failed update
\* changes no row.
C9_ConflictOnlyOnCollision ==
    [][(/\ Answers("update")
        /\ req'.id \in Ids_of(table)
        /\ dbUp
        /\ FitsColumns(UpdateValues(req'.data)))
          => /\ resp'.status = 400 <=>
                   \E r \in table :
                      /\ r.id # req'.id
                      /\ \/ r.student_id = PyGet(req'.data, "student_id")
                         \/ r.email = PyGet(req'.data, "email")
             /\ resp'.status \in {200, 400, 500}
             /\ resp'.status # 200 => table' = table]_vars

\* C10: a successful add returns an id that no row ever had, deleted rows
\* included, and an update changes neither the id nor the created_at of a row.
C10_IdsAndCreation ==
    [][/\ (Answers("add") /\ resp'.status = 201) =>
            (resp'.id \notin assigned /\ resp'.id \in Ids_of(table'))
       /\ Answers("update") =>
            /\ Ids_of(table') = Ids_of(table)
            /\ \A r \in table : \E u \in table' :
                  u.id = r.id /\ u.created_at = r.created_at]_vars

\* an add succeeded after a row had been deleted
C10_Witness ==
    /\ req.op = "add"
    /\ resp.status = 201
    /\ assigned \ Ids_of(table) # {}

====
